---- MODULE Spec2Model ----
(***************************************************************************)
(* Model of the time-budgeted search engine of LightAutoML:                *)
(*   - LinearL1CD.fit_predict_single_fold  (ml_algo/linear_sklearn.py),    *)
(*     the regularization-path search over the grid l1_ratios x cs;        *)
(*   - OptunaTuner.fit                     (ml_algo/tuning/optuna.py),     *)
(*     the trial loop with its post-trial callback update_trial_time.      *)
(* The two components have their own specification (Spec for the path      *)
(* search, TunerSpec for the tuner); each leaves the other's variables     *)
(* untouched.                                                               *)
(***************************************************************************)
EXTENDS Integers, Sequences, FiniteSets

(***************************************************************************)
(* Bounds of the model.                                                    *)
(***************************************************************************)
MaxOuter == 2
MaxCs == 3
MaxScore == 2
MaxPatience == 2
MaxT == 5
MaxD == 2
MaxTimeout == 5
MaxTrials == 3
MaxDur == 2
MaxRuns == 2

\* n_trials: Optional[int] = 100
DefaultNTrials == 100

\* best_score = -np.inf: below every score of Scores.
NegInf == -1

Scores == 0..MaxScore

VARIABLES
    \* ---- LinearL1CD.fit_predict_single_fold ----
    l1_ratios,      \* params['l1_ratios'], as the caller gave them
    cs,             \* params['cs']
    early_stopping, \* params['early_stopping']
    time_limit,     \* time the timer has left when the search starts
    fit_dur,        \* duration of one model.fit call
    pc,             \* position in fit_predict_single_fold
    k,              \* number of outer values taken so far (1-based index of the current one)
    n,              \* enumerate index of the inner loop (0-based, as in the code)
    model,          \* the solver object `model`
    es,             \* no-improvement counter
    c_best_score, c_best_pred, c_best_model,
    best_score, best_pred, best_model,
    warnings,       \* number of warnings.warn calls
    fits,           \* number of model.fit calls
    \* history of the search, kept for the properties only
    h_ok,           \* some model.fit call returned without raising
    h_all_zero,     \* every model.fit call so far gave all-zero coefficients
    h_best,         \* the last scored cell among those of maximal score, and its score
    h_tie,          \* h_best took the place of an earlier scored cell of the same score
    scored,         \* the scores of the cells scored in this inner loop, in order
    h_outer,        \* the values the loop variable l1_ratio has taken, in order
    h_inner,        \* the values of c given to model.fit in this inner loop, in order
    h_warm,         \* the cell `model` was last fitted on when model.fit was last called
                    \* (<<0, 0>>: a copy of _model, never fitted)
    \* ---- OptunaTuner ----
    tpc,                \* position in OptunaTuner.fit
    timeout,            \* self.timeout
    n_trials,           \* self.n_trials
    estimated_n_trials, \* self.estimated_n_trials
    hint,               \* estimated_n_trials as get_objective received it (0: no objective yet)
    durations,          \* study.trials_dataframe()['duration'], one entry per trial
                        \* of the study of the current fit call
    t_elapsed,          \* time since study.optimize was entered
    runs,               \* number of fit calls made on this tuner
    fit_on_holdout,     \* self._fit_on_holdout
    iter_in,            \* kind of the train_valid_iterator the caller passed ("none": no call yet)
    iter_used,          \* the iterator the local name train_valid_iterator is bound to
    flg_new_iterator,
    study_best,         \* study.best_trial: its number (0: no trial yet)
    best_params,        \* self._best_params: <<fit call, trial>> of the trial they came from
    final_fit,          \* the ml_algo.fit_predict call of line 180: how often, with which
                        \* params, on which iterator
    result,             \* what fit returned ("none": nothing yet)
    objs,               \* the MLAlgo objects alive: "caller" is the object the caller
                        \* passes to fit, "copy" and "trial" are made by deepcopy
    ml_algo,            \* the object the local name ml_algo of fit is bound to
    returned,           \* the object fit returned ("none": no object)
    \* history, kept for the properties only
    last_start,         \* trials run, estimated_n_trials and t_elapsed when the last trial
                        \* started, and the iterator its objective ran on
    h_error,            \* what was raised during the current fit call
    h_entry_params,     \* self._best_params when the current fit call was entered
    h_trial_base        \* the object the last objective call copied, as it was then

pvars == <<l1_ratios, cs, early_stopping, time_limit, fit_dur, pc, k, n,
           model, es, c_best_score, c_best_pred, c_best_model,
           best_score, best_pred, best_model,
           warnings, fits, h_ok, h_all_zero, h_best, h_tie, scored,
           h_outer, h_inner, h_warm>>
tvars == <<tpc, timeout, n_trials, estimated_n_trials, hint, durations, t_elapsed,
           runs, fit_on_holdout, iter_in, iter_used, flg_new_iterator, study_best,
           best_params, final_fit, result, last_start, h_error, h_entry_params,
           objs, ml_algo, returned, h_trial_base>>
vars == <<pvars, tvars>>

(***************************************************************************)
(* Pure helpers.                                                           *)
(***************************************************************************)
RECURSIVE InsertDesc(_, _)
InsertDesc(x, s) ==
    IF s = <<>> THEN <<x>>
    ELSE IF x >= Head(s) THEN <<x>> \o s
    ELSE <<Head(s)>> \o InsertDesc(x, Tail(s))

\* sorted(l1_ratios, reverse=True)
RECURSIVE SortedDesc(_)
SortedDesc(s) ==
    IF s = <<>> THEN <<>> ELSE InsertDesc(Head(s), SortedDesc(Tail(s)))

\* Grids the caller may pass. Mixing ratios are the values 1..MaxOuter (a larger
\* number is a larger ratio), given in ascending or in descending order; penalty
\* strengths are a prefix of 1, 2, 3, ...
L1Grids == UNION {{[i \in 1..len |-> i], [i \in 1..len |-> len + 1 - i]} : len \in 0..MaxOuter}
CsGrids == {[i \in 1..len |-> i] : len \in 0..MaxCs}

\* _model as _infer_params returns it: unfitted, l1_ratio and C not set (0).
\* cell is the grid cell <<k, n>> the object was last fitted on.
BaseModel == [l1_ratio |-> 0, C |-> 0, coef |-> "unfit", cell |-> <<0, 0>>]
\* pred of a scored cell: the cell that made it and the value the metric gives it.
Pred(cell, score) == [cell |-> cell, score |-> score]
\* best_pred = None
NoPred == [cell |-> <<0, 0>>, score |-> NegInf]
\* best_model = None
NoModel == [l1_ratio |-> 0, C |-> 0, coef |-> "none", cell |-> <<0, 0>>]

\* Time spent since the search started: only model.fit takes time.
Elapsed(calls) == calls * fit_dur

\* self.timer.time_limit_exceeded(): remaining() = max(0, deadline - now) is 0.
TimeLimitExceeded(calls) == Elapsed(calls) >= time_limit

\* The outcome of a fit that returns is the kind of its coefficients: "zero" (all
\* close to 0), "sparse" (some away from 0, some equal to 0) or "dense" (none equal
\* to 0). Coefficients all close to 0 and none equal to 0 take the path of "zero":
\* skipped when not last, and as last cell nothing follows the break.
CoefKinds == {"zero", "sparse", "dense"}

\* The outer values taken in the order the caller gave them.
OuterOrderAsGiven(ratios) == ratios
\* sorted(l1_ratios, reverse=True)
OuterOrder(ratios) == SortedDesc(ratios)

\* The object of the previous outer value kept: no copy of _model is made.
ResetModelKept(old) == old
\* model = deepcopy(_model): whatever was set or fitted on the old object is gone.
ResetModel(old) == BaseModel

\* The dense cell does not end the inner loop.
AllCoefNonZeroNever(coef) == FALSE
\* (model.coef_ != 0).all()
AllCoefNonZero(coef) == coef = "dense"

\* No cell is taken as degenerate.
AllCoefZeroNever(coef) == FALSE
\* np.allclose(model.coef_, 0)
AllCoefZero(coef) == coef = "zero"

\* No inner value taken as the last one: every degenerate cell is skipped.
IsLastInnerNever(i) == FALSE
\* The warning given for every degenerate cell, not only for the last one.
IsLastInnerAlways(i) == TRUE
\* n == (len(cs) - 1)
IsLastInner(i) == i = Len(cs) - 1

\* score > c_best_score: a tie keeps the earlier cell.
InnerImprovesStrict(score, best) == score > best
\* score >= c_best_score
InnerImproves(score, best) == score >= best
\* The global best overwritten by every outer value, without a comparison.
OuterImprovesAlways(cbest, best) == TRUE
\* c_best_score >= best_score
OuterImproves(cbest, best) == cbest >= best
\* es += 1
EsIncrement(cnt) == cnt + 1
\* es > early_stopping: one cell too late.
EarlyStopLate(cnt) == cnt > early_stopping
\* es >= early_stopping
EarlyStop(cnt) == cnt >= early_stopping

(***************************************************************************)
(* LinearL1CD.fit_predict_single_fold                                      *)
(***************************************************************************)
PathInit ==
    /\ l1_ratios \in L1Grids
    /\ cs \in CsGrids
    /\ early_stopping \in 0..MaxPatience
    /\ time_limit \in 0..MaxT
    /\ fit_dur \in 1..MaxD
    /\ pc = "outer"
    /\ k = 0
    /\ n = 0
    /\ model = BaseModel
    /\ es = 0
    /\ c_best_score = NegInf
    /\ c_best_pred = NoPred
    /\ c_best_model = NoModel
    /\ best_score = NegInf
    /\ best_pred = NoPred
    /\ best_model = NoModel
    /\ warnings = 0
    /\ fits = 0
    /\ h_ok = FALSE
    /\ h_all_zero = TRUE
    /\ h_best = [score |-> NegInf, cell |-> <<0, 0>>]
    /\ h_tie = FALSE
    /\ scored = <<>>
    /\ h_outer = <<>>
    /\ h_inner = <<>>
    /\ h_warm = <<0, 0>>

params == <<l1_ratios, cs, early_stopping, time_limit, fit_dur>>
c_best == <<c_best_score, c_best_pred, c_best_model>>
best == <<best_score, best_pred, best_model>>

\* for l1_ratio in sorted(l1_ratios, reverse=True): the next outer value.
\* set_params(l1_ratio=...) acts on the old object; model = deepcopy(_model)
\* then replaces it, so the new object carries _model's parameters.
OuterNext ==
    /\ pc = "outer"
    /\ k < Len(l1_ratios)
    /\ k' = k + 1
    /\ h_outer' = Append(h_outer, OuterOrder(l1_ratios)[k + 1])
    /\ model' = ResetModel([model EXCEPT !.l1_ratio = OuterOrder(l1_ratios)[k + 1]])
    /\ c_best_score' = NegInf
    /\ c_best_pred' = NoPred
    /\ c_best_model' = NoModel
    /\ es' = 0
    /\ n' = 0
    /\ pc' = "inner"
    /\ scored' = <<>>
    /\ h_inner' = <<>>
    /\ UNCHANGED <<params, best, warnings, fits, h_ok, h_all_zero, h_best, h_tie, h_warm>>

\* The outer loop is exhausted: val_pred = bw_func(best_pred); return.
OuterEnd ==
    /\ pc = "outer"
    /\ k = Len(l1_ratios)
    /\ pc' = "done"
    /\ UNCHANGED <<params, k, n, model, es, c_best, best, warnings, fits,
                   h_ok, h_all_zero, h_best, h_tie, scored, h_outer, h_inner, h_warm>>

\* model.fit raises: nothing in the function catches it.
FitRaises ==
    /\ pc = "inner"
    /\ n < Len(cs)
    /\ model' = [model EXCEPT !.C = cs[n + 1]]
    /\ fits' = fits + 1
    /\ h_all_zero' = FALSE
    /\ pc' = "raised"
    /\ h_inner' = Append(h_inner, cs[n + 1])
    /\ h_warm' = model.cell
    /\ UNCHANGED <<params, k, n, es, c_best, best, warnings, h_ok, h_best, h_tie, scored,
                   h_outer>>

\* All coefficients are close to 0 and this is not the last inner value: continue.
FitDegenerateSkip ==
    /\ pc = "inner"
    /\ n < Len(cs)
    /\ \E coef \in CoefKinds :
         /\ AllCoefZero(coef) /\ ~IsLastInner(n)
         /\ model' = [model EXCEPT !.C = cs[n + 1], !.coef = coef, !.cell = <<k, n>>]
    /\ fits' = fits + 1
    /\ h_ok' = TRUE
    /\ n' = n + 1
    /\ h_inner' = Append(h_inner, cs[n + 1])
    /\ h_warm' = model.cell
    /\ UNCHANGED <<params, pc, k, es, c_best, best, warnings, h_all_zero, h_best,
                   h_tie, scored, h_outer>>

\* The cell is scored (lines 207-239): a degenerate last cell after its warning,
\* or a cell with some coefficient away from 0.
FitScored ==
    /\ pc = "inner"
    /\ n < Len(cs)
    /\ \E coef \in CoefKinds, score \in Scores :
         /\ AllCoefZero(coef) => IsLastInner(n)
         /\ LET fitted == [model EXCEPT !.C = cs[n + 1], !.coef = coef, !.cell = <<k, n>>]
                improved == InnerImproves(score, c_best_score)
                es1 == IF improved THEN 0 ELSE EsIncrement(es)
            IN  /\ model' = fitted
                /\ fits' = fits + 1
                /\ warnings' = IF AllCoefZero(coef) THEN warnings + 1 ELSE warnings
                /\ c_best_score' = IF improved THEN score ELSE c_best_score
                /\ c_best_pred' = IF improved THEN Pred(<<k, n>>, score) ELSE c_best_pred
                /\ c_best_model' = IF improved THEN fitted ELSE c_best_model
                /\ es' = es1
                /\ IF \/ EarlyStop(es1)
                      \/ TimeLimitExceeded(fits + 1)
                      \/ AllCoefNonZero(coef)
                   THEN pc' = "after_inner" /\ n' = n
                   ELSE pc' = "inner" /\ n' = n + 1
                /\ h_ok' = TRUE
                /\ h_all_zero' = (h_all_zero /\ AllCoefZero(coef))
                /\ h_best' = IF score >= h_best.score
                             THEN [score |-> score, cell |-> <<k, n>>] ELSE h_best
                /\ h_tie' = IF score = h_best.score THEN TRUE
                            ELSE IF score > h_best.score THEN FALSE ELSE h_tie
                /\ scored' = Append(scored, score)
    /\ h_inner' = Append(h_inner, cs[n + 1])
    /\ h_warm' = model.cell
    /\ UNCHANGED <<params, k, best, h_outer>>

\* The inner for loop is exhausted.
InnerEnd ==
    /\ pc = "inner"
    /\ n >= Len(cs)
    /\ pc' = "after_inner"
    /\ UNCHANGED <<params, k, n, model, es, c_best, best, warnings, fits,
                   h_ok, h_all_zero, h_best, h_tie, scored, h_outer, h_inner, h_warm>>

\* Lines 241-248: update of the global best, then the time check of the outer loop.
AfterInner ==
    /\ pc = "after_inner"
    /\ IF OuterImproves(c_best_score, best_score)
       THEN /\ best_score' = c_best_score
            /\ best_pred' = c_best_pred
            /\ best_model' = c_best_model
       ELSE UNCHANGED best
    /\ pc' = IF TimeLimitExceeded(fits) THEN "done" ELSE "outer"
    /\ UNCHANGED <<params, k, n, model, es, c_best, warnings, fits,
                   h_ok, h_all_zero, h_best, h_tie, scored, h_outer, h_inner, h_warm>>

PathNext ==
    \/ OuterNext
    \/ OuterEnd
    \/ FitRaises
    \/ FitDegenerateSkip
    \/ FitScored
    \/ InnerEnd
    \/ AfterInner

PathIdle ==
    /\ l1_ratios = <<>>
    /\ cs = <<>>
    /\ early_stopping = 0
    /\ time_limit = 0
    /\ fit_dur = 1
    /\ pc = "idle"
    /\ k = 0
    /\ n = 0
    /\ model = BaseModel
    /\ es = 0
    /\ c_best_score = NegInf
    /\ c_best_pred = NoPred
    /\ c_best_model = NoModel
    /\ best_score = NegInf
    /\ best_pred = NoPred
    /\ best_model = NoModel
    /\ warnings = 0
    /\ fits = 0
    /\ h_ok = FALSE
    /\ h_all_zero = TRUE
    /\ h_best = [score |-> NegInf, cell |-> <<0, 0>>]
    /\ h_tie = FALSE
    /\ scored = <<>>
    /\ h_outer = <<>>
    /\ h_inner = <<>>
    /\ h_warm = <<0, 0>>

(***************************************************************************)
(* OptunaTuner                                                             *)
(***************************************************************************)
Min(a, b) == IF a <= b THEN a ELSE b
Max(a, b) == IF a >= b THEN a ELSE b

RECURSIVE SumSeq(_)
SumSeq(s) == IF s = <<>> THEN 0 ELSE Head(s) + SumSeq(Tail(s))

NoStart == [run |-> 0, est |-> 0, elapsed |-> 0, on |-> "none"]
\* A study without trials has no best trial.
NoTrial == 0
\* self._best_params before any fit call set it.
NoParams == <<0, 0>>
\* No ml_algo.fit_predict call of line 180 in this fit call.
NoFinalFit == [count |-> 0, params |-> NoParams, on |-> "none"]

\* mean_trial_time: float = None
NoMean == <<0, 0>>
\* The object the caller passes to fit: not fitted (the assert of line 131),
\* with its own params and no mean_trial_time.
CallerAlgo == [params |-> NoParams, fitted |-> FALSE, mean |-> NoMean]
\* The objects alive o, with object ref created or overwritten as algo.
Put(o, ref, algo) ==
    [x \in (DOMAIN o) \cup {ref} |-> IF x = ref THEN algo ELSE o[x]]
\* Only the caller's object is alive.
OnlyCaller(o) == [x \in {"caller"} |-> o["caller"]]

\* No copy made: the name stays bound to the object itself.
DeepCopyAlias(obj, fresh) == obj
\* deepcopy(obj): a new object, fresh, with the content of obj.
DeepCopy(obj, fresh) == fresh

\* OptunaTuner.__init__
TunerInit ==
    /\ tpc = "idle"
    /\ timeout \in 1..MaxTimeout
    /\ n_trials \in (1..MaxTrials) \cup {DefaultNTrials}
    /\ estimated_n_trials = n_trials
    /\ hint = 0
    /\ durations = <<>>
    /\ t_elapsed = 0
    /\ runs = 0
    /\ fit_on_holdout \in BOOLEAN
    /\ iter_in = "none"
    /\ iter_used = "none"
    /\ flg_new_iterator = FALSE
    /\ study_best = NoTrial
    /\ best_params = NoParams
    /\ final_fit = NoFinalFit
    /\ result = "none"
    /\ last_start = NoStart
    /\ h_error = "none"
    /\ h_entry_params = NoParams
    /\ objs = [x \in {"caller"} |-> CallerAlgo]
    /\ ml_algo = "none"
    /\ returned = "none"
    /\ h_trial_base = CallerAlgo

\* The tuner of a model in which only the path search runs.
TunerIdle ==
    /\ tpc = "idle"
    /\ timeout = 1
    /\ n_trials = 1
    /\ estimated_n_trials = 1
    /\ hint = 0
    /\ durations = <<>>
    /\ t_elapsed = 0
    /\ runs = 0
    /\ fit_on_holdout = TRUE
    /\ iter_in = "none"
    /\ iter_used = "none"
    /\ flg_new_iterator = FALSE
    /\ study_best = NoTrial
    /\ best_params = NoParams
    /\ final_fit = NoFinalFit
    /\ result = "none"
    /\ last_start = NoStart
    /\ h_error = "none"
    /\ h_entry_params = NoParams
    /\ objs = [x \in {"caller"} |-> CallerAlgo]
    /\ ml_algo = "none"
    /\ returned = "none"
    /\ h_trial_base = CallerAlgo

\* The timeout overwritten by the estimated tuning time, without the min.
UpdTimeoutNew(old, new) == new
\* _upd_timeout: self.timeout = min(self.timeout, timeout)
UpdTimeout(old, new) == Min(old, new)

\* The estimate without the cap at n_trials.
EstimatedNTrialsUncapped(durs) ==
    (timeout * Len(durs)) \div SumSeq(durs)

\* The mean replaced by the duration of the last trial.
EstimatedNTrialsLast(durs) ==
    Min(n_trials, timeout \div durs[Len(durs)])

\* update_trial_time: min(self.n_trials, self.timeout // mean_trial_time), the
\* mean taken over all trials of the study. timeout // (sum / count) is
\* (timeout * count) \div sum.
EstimatedNTrials(durs) ==
    Min(n_trials, (timeout * Len(durs)) \div SumSeq(durs))

\* optimize called without n_trials: only the timeout stops the loop.
ShouldStopNoCount(trials_run, since_start) ==
    since_start >= timeout

\* The timeout compared with > : a trial starts when the time is just up.
ShouldStopLate(trials_run, since_start) ==
    trials_run >= n_trials \/ since_start > timeout

\* study.optimize(n_trials=self.n_trials, timeout=self.timeout): before each
\* trial the loop stops when n_trials trials were run or the time since its
\* start has reached timeout.
ShouldStop(trials_run, since_start) ==
    trials_run >= n_trials \/ since_start >= timeout

\* The conversion to a holdout iterator left out.
NeedsConversionNever(on_holdout, kind) == FALSE
\* self._fit_on_holdout and type(train_valid_iterator) != HoldoutIterator
NeedsConversion(on_holdout, kind) == on_holdout /\ kind # "holdout"

\* study.best_trial after one more trial: the new trial if it is the first one
\* or its value is better than the best value so far, else the trial it was.
StudyBest(cur, trial, better) ==
    IF cur = NoTrial \/ better THEN trial ELSE cur

\* The final fit run with the parameters ml_algo had before (line 178 left out).
FinalFitParamsOld(best_p, old_p) == old_p
\* ml_algo.params = self._best_params, then ml_algo.fit_predict(...)
FinalFitParams(best_p, old_p) == best_p

\* The final fit run on the iterator the caller passed.
FinalFitIteratorOriginal(passed, used) == passed
\* ml_algo.fit_predict(train_valid_iterator): the local name, rebound by line 142.
FinalFitIterator(passed, used) == used

\* The return value without the test of flg_new_iterator.
FitResultAlways(flg) == "Algo"
\* Lines 182-186: (None, None) if flg_new_iterator, else (ml_algo, preds_ds).
FitResult(flg) == IF flg THEN "NoResult" ELSE "Algo"

\* fit, lines 131-170: the timeout is clamped, the iterator converted if needed,
\* a new study is created and the objective is built with the current
\* estimated_n_trials.
FitStart ==
    /\ tpc \in {"idle", "returned", "raised"}
    /\ runs < MaxRuns
    /\ \E estimated_tuning_time \in 0..MaxTimeout :
         timeout' = UpdTimeout(timeout, Max(estimated_tuning_time, 1))
    /\ \E kind \in {"cv", "holdout"} :
         /\ iter_in' = kind
         /\ IF NeedsConversion(fit_on_holdout, kind)
            THEN iter_used' = "converted" /\ flg_new_iterator' = TRUE
            ELSE iter_used' = kind /\ flg_new_iterator' = FALSE
    /\ hint' = estimated_n_trials
    /\ durations' = <<>>
    /\ t_elapsed' = 0
    /\ runs' = runs + 1
    /\ study_best' = NoTrial
    /\ final_fit' = NoFinalFit
    /\ result' = "none"
    /\ last_start' = NoStart
    /\ h_error' = "none"
    /\ h_entry_params' = best_params
    /\ ml_algo' = DeepCopy("caller", "copy")
    /\ objs' = Put(OnlyCaller(objs), DeepCopy("caller", "copy"), objs["caller"])
    /\ returned' = "none"
    /\ h_trial_base' = CallerAlgo
    /\ tpc' = "optimize"
    /\ UNCHANGED <<n_trials, estimated_n_trials, fit_on_holdout, best_params>>

\* fit, lines 131-142: convert_to_holdout_iterator raises. The call is outside
\* the try block: the exception leaves fit, no study is created.
ConvertFails ==
    /\ tpc \in {"idle", "returned", "raised"}
    /\ runs < MaxRuns
    /\ \E estimated_tuning_time \in 0..MaxTimeout :
         timeout' = UpdTimeout(timeout, Max(estimated_tuning_time, 1))
    /\ \E kind \in {"cv", "holdout"} :
         /\ NeedsConversion(fit_on_holdout, kind)
         /\ iter_in' = kind
    /\ iter_used' = "none"
    /\ flg_new_iterator' = FALSE
    /\ durations' = <<>>
    /\ t_elapsed' = 0
    /\ runs' = runs + 1
    /\ study_best' = NoTrial
    /\ final_fit' = NoFinalFit
    /\ result' = "none"
    /\ last_start' = NoStart
    /\ h_error' = "convert"
    /\ h_entry_params' = best_params
    /\ ml_algo' = DeepCopy("caller", "copy")
    /\ objs' = Put(OnlyCaller(objs), DeepCopy("caller", "copy"), objs["caller"])
    /\ returned' = "none"
    /\ h_trial_base' = CallerAlgo
    /\ tpc' = "raised"
    /\ UNCHANGED <<n_trials, estimated_n_trials, hint, fit_on_holdout, best_params>>

\* One trial of study.optimize: the objective runs for d time units on the
\* iterator in use and returns a value, then the callback update_trial_time
\* recomputes estimated_n_trials.
TrialRun ==
    /\ tpc = "optimize"
    /\ ~ShouldStop(Len(durations), t_elapsed)
    /\ \E d \in 1..MaxDur, better \in BOOLEAN :
         /\ durations' = Append(durations, d)
         /\ t_elapsed' = t_elapsed + d
         /\ estimated_n_trials' = EstimatedNTrials(Append(durations, d))
         /\ study_best' = StudyBest(study_best, Len(durations) + 1, better)
         /\ LET _ml_algo == DeepCopy(ml_algo, "trial")
                tried == [objs[ml_algo] EXCEPT !.params = <<runs, Len(durations) + 1>>,
                                               !.fitted = TRUE]
                after == Put(objs, _ml_algo, tried)
            IN  objs' = [after EXCEPT ![ml_algo].mean =
                            <<SumSeq(Append(durations, d)), Len(durations) + 1>>]
    /\ h_trial_base' = objs[ml_algo]
    /\ last_start' = [run |-> Len(durations), est |-> estimated_n_trials,
                      elapsed |-> t_elapsed, on |-> iter_used]
    /\ UNCHANGED <<tpc, timeout, n_trials, hint, runs, fit_on_holdout, iter_in,
                   iter_used, flg_new_iterator, best_params, final_fit, result,
                   h_error, h_entry_params, ml_algo, returned>>

\* create_study or study.optimize raises an OptunaError: lines 187-188.
OptunaErrorRaised ==
    /\ tpc = "optimize"
    /\ h_error' = "optuna"
    /\ result' = "NoResult"
    /\ tpc' = "returned"
    /\ UNCHANGED <<timeout, n_trials, estimated_n_trials, hint, durations, t_elapsed,
                   runs, fit_on_holdout, iter_in, iter_used, flg_new_iterator,
                   study_best, best_params, final_fit, last_start, h_entry_params,
                   objs, ml_algo, returned, h_trial_base>>

\* study.optimize returns; lines 177-178: self._best_params = study.best_params.
OptimizeEnd ==
    /\ tpc = "optimize"
    /\ ShouldStop(Len(durations), t_elapsed)
    /\ best_params' = <<runs, study_best>>
    /\ tpc' = "final"
    /\ UNCHANGED <<timeout, n_trials, estimated_n_trials, hint, durations, t_elapsed,
                   runs, fit_on_holdout, iter_in, iter_used, flg_new_iterator,
                   study_best, final_fit, result, last_start, h_error, h_entry_params,
                   objs, ml_algo, returned, h_trial_base>>

\* Lines 178-186: the final fit with the best parameters, then the return.
FinalFit ==
    /\ tpc = "final"
    /\ final_fit' = [count |-> final_fit.count + 1,
                     params |-> FinalFitParams(best_params, NoParams),
                     on |-> FinalFitIterator(iter_in, iter_used)]
    /\ result' = FitResult(flg_new_iterator)
    /\ objs' = [objs EXCEPT ![ml_algo].params = FinalFitParams(best_params, @),
                            ![ml_algo].fitted = TRUE]
    /\ returned' = IF FitResult(flg_new_iterator) = "Algo" THEN ml_algo ELSE "none"
    /\ tpc' = "returned"
    /\ UNCHANGED <<timeout, n_trials, estimated_n_trials, hint, durations, t_elapsed,
                   runs, fit_on_holdout, iter_in, iter_used, flg_new_iterator,
                   study_best, best_params, last_start, h_error, h_entry_params,
                   ml_algo, h_trial_base>>

TunerNext ==
    \/ FitStart
    \/ ConvertFails
    \/ TrialRun
    \/ OptunaErrorRaised
    \/ OptimizeEnd
    \/ FinalFit

Init == PathInit /\ TunerIdle
Next == PathNext /\ UNCHANGED tvars
Spec == Init /\ [][Next]_vars

TunerSpecInit == TunerInit /\ PathIdle
TunerSpecNext == TunerNext /\ UNCHANGED pvars
TunerSpec == TunerSpecInit /\ [][TunerSpecNext]_vars

(***************************************************************************)
(* Properties of LinearL1CD.fit_predict_single_fold (specification Spec).  *)
(***************************************************************************)
NonEmptyGrid == l1_ratios # <<>> /\ cs # <<>>

CeilDiv(a, b) == (a + b - 1) \div b

\* C1: for a non-empty grid the returned model is a scored cell (fitted, with
\* the prediction of that same cell) and its score is the maximum of the scores
\* of all cells scored during the search, whatever ended the inner loops.
C1_BestSoFar ==
    (pc = "done" /\ NonEmptyGrid) =>
        /\ best_model # NoModel
        /\ best_model.coef \in {"zero", "sparse", "dense"}
        /\ best_model.cell[1] \in 1..k
        /\ best_model.cell[2] \in 0..(Len(cs) - 1)
        /\ best_pred.cell = best_model.cell
        /\ best_pred.score = best_score
        /\ best_score \in Scores
        /\ best_score = h_best.score

\* A search over two outer values whose best cell is neither the last cell
\* scored nor in the last outer value.
C1_Witness ==
    /\ pc = "done"
    /\ k = 2
    /\ fits >= 4
    /\ best_model.cell = <<1, 1>>
    /\ best_score = MaxScore
    /\ scored # <<>>
    /\ scored[Len(scored)] < MaxScore

\* C2: ties go to the cell evaluated later, inside one outer value and between
\* outer values: the returned model and prediction are those of the last scored
\* cell among the cells of maximal score. With one outer value and three inner
\* values scored [a, b, b], a < b, the third inner value is returned.
C2_TieGoesToLater ==
    (pc = "done" /\ NonEmptyGrid) =>
        /\ best_model.cell = h_best.cell
        /\ best_pred.cell = h_best.cell
        /\ (/\ Len(l1_ratios) = 1
            /\ Len(cs) = 3
            /\ Len(scored) = 3
            /\ scored[1] < scored[2]
            /\ scored[2] = scored[3])
           => (best_model.cell = <<1, 2>> /\ best_model.C = cs[3])

\* The scenario of the claim: one outer value, scores [a, b, b] with a < b.
C2_Witness ==
    /\ pc = "done"
    /\ Len(l1_ratios) = 1
    /\ Len(cs) = 3
    /\ Len(scored) = 3
    /\ scored[1] < scored[2]
    /\ scored[2] = scored[3]
    /\ h_tie
    /\ best_model.cell = <<1, 2>>

\* C3: within one outer value, when the scores strictly decrease on every
\* scored cell after the i-th one, at most early_stopping cells are scored after
\* it, and the inner loop is left once early_stopping of them were scored. The
\* counter es is the number of cells scored since the last cell whose score was
\* >= all scores before it, and the loop goes on only while es < early_stopping.
C3_EarlyStoppingBound ==
    /\ \A i \in 1..Len(scored) :
         (\A j \in (i + 1)..Len(scored) : scored[j] < scored[j - 1]) =>
            /\ Len(scored) - i <= early_stopping
            /\ Len(scored) - i >= early_stopping => pc # "inner"
    /\ (scored # <<>> /\ pc \in {"inner", "after_inner"}) =>
         \E i \in 1..Len(scored) :
            /\ \A j \in 1..(i - 1) : scored[i] >= scored[j]
            /\ \A m \in (i + 1)..Len(scored) : \E j \in 1..(m - 1) : scored[m] < scored[j]
            /\ es = Len(scored) - i
    /\ (pc = "inner" /\ scored # <<>>) => es < early_stopping

\* Early stopping ends an inner loop before the end of cs: the score fell once,
\* patience is 1, the time limit is not reached and the coefficients are sparse.
C3_Witness ==
    /\ pc = "after_inner"
    /\ early_stopping = 1
    /\ Len(scored) = 2
    /\ scored[2] < scored[1]
    /\ n < Len(cs) - 1
    /\ model.coef = "sparse"
    /\ ~TimeLimitExceeded(fits)

\* C4: with time_limit left at the start and fit_dur per fit call, at most
\* ceil(time_limit / fit_dur) + 1 fit calls are made.
C4_TimeBudgetFitBound == fits <= CeilDiv(time_limit, fit_dur) + 1

\* C5 as stated: when every cell gives all-zero coefficients the search returns
\* the dummy model and emits exactly one warning for the whole search.
C5_OneWarningPerSearch ==
    (pc = "done" /\ NonEmptyGrid /\ h_all_zero) =>
        (best_model.coef = "zero" /\ warnings = 1)

\* C5 as amended: when every cell gives all-zero coefficients the search does
\* not raise, returns the dummy model, and emits exactly one warning per outer
\* value visited (not one per cell).
C5_OneWarningPerOuter ==
    /\ (NonEmptyGrid /\ h_all_zero) => pc # "raised"
    /\ (pc = "done" /\ NonEmptyGrid /\ h_all_zero) =>
        /\ best_model.coef = "zero"
        /\ AllCoefZero(best_model.coef)
        /\ best_model.cell[2] = Len(cs) - 1
        /\ warnings = k
        /\ fits = k * Len(cs)

\* An all-degenerate search over two outer values of several cells each.
C5_Witness ==
    /\ pc = "done"
    /\ h_all_zero
    /\ Len(cs) >= 2
    /\ k = 2
    /\ fits = 2 * Len(cs)
    /\ warnings = 2
    /\ best_model.coef = "zero"

\* C6: an empty grid never yields a result: the search fails before any fit call.
C6_EmptyGridRejected ==
    ~NonEmptyGrid => (pc # "done" /\ fits = 0)

\* C7: a fit error ends the search only when no cell of the grid was fitted
\* successfully; otherwise the cell is skipped and the search goes on.
C7_FitErrorSkipped ==
    pc = "raised" => ~h_ok

(***************************************************************************)
(* Properties of OptunaTuner.fit (specification TunerSpec).                *)
(***************************************************************************)
\* C8 as stated: a trial is started only when trials_run is below
\* min(n_trials, estimated_n_trials) and the time is not up; the number of
\* trials run never exceeds n_trials nor the value estimated_n_trials had when
\* the last trial was started.
C8_StopRuleWithEstimate ==
    /\ Len(durations) <= n_trials
    /\ durations # <<>> =>
        /\ last_start.run < Min(n_trials, last_start.est)
        /\ last_start.elapsed < timeout
        /\ Len(durations) <= last_start.est

\* C8 as amended: a trial is started only when trials_run < n_trials,
\* trials_run <= estimated_n_trials and the time is not up; the number of trials
\* run never exceeds n_trials and exceeds the value estimated_n_trials had when
\* the last trial was started by at most one.
C8_StopRule ==
    /\ Len(durations) <= n_trials
    /\ durations # <<>> =>
        /\ last_start.run < n_trials
        /\ last_start.run <= last_start.est
        /\ last_start.elapsed < timeout
        /\ Len(durations) = last_start.run + 1
        /\ Len(durations) <= last_start.est + 1

\* The third trial is started although estimated_n_trials is 2.
C8_Witness ==
    /\ tpc = "returned"
    /\ Len(durations) = 3
    /\ last_start.run = 2
    /\ last_start.est = 2
    /\ n_trials > 3

\* C9 as stated: after every completed trial estimated_n_trials is
\* floor(remaining_time / mean duration), remaining_time being the time left
\* until the deadline.
C9_EstimateFromRemaining ==
    durations # <<>> =>
        \E q \in 0..(MaxTimeout * Len(durations)) :
            /\ q * SumSeq(durations) <= Max(0, timeout - t_elapsed) * Len(durations)
            /\ Max(0, timeout - t_elapsed) * Len(durations) < (q + 1) * SumSeq(durations)
            /\ estimated_n_trials = q

\* C9 as amended: after every completed trial estimated_n_trials is
\* min(n_trials, floor(timeout / mean duration)), timeout being the tuner's
\* whole (clamped) timeout and the mean taken over all trials of the run.
C9_EstimateFromTimeout ==
    durations # <<>> =>
        \E q \in 0..(MaxTimeout * Len(durations)) :
            /\ q * SumSeq(durations) <= timeout * Len(durations)
            /\ timeout * Len(durations) < (q + 1) * SumSeq(durations)
            /\ estimated_n_trials = Min(n_trials, q)

\* Trials of different durations were run and the estimate is below n_trials
\* and differs from what the remaining time gives.
C9_Witness ==
    /\ Len(durations) >= 2
    /\ durations[1] # durations[2]
    /\ estimated_n_trials < n_trials
    /\ estimated_n_trials # (Max(0, timeout - t_elapsed) * Len(durations)) \div SumSeq(durations)
    /\ estimated_n_trials = (timeout * Len(durations)) \div SumSeq(durations)

\* C10: with timeout 5, n_trials 100 and trials of 2 time units at most 3
\* trials are run; no trial is started once the elapsed time has reached the
\* timeout, so the time used exceeds the timeout by less than the duration of
\* the last trial.
C10_TimeoutOverrun ==
    /\ (/\ timeout = 5
        /\ n_trials = DefaultNTrials
        /\ \A i \in DOMAIN durations : durations[i] = 2)
       => Len(durations) <= 3
    /\ durations # <<>> =>
        /\ last_start.elapsed < timeout
        /\ t_elapsed = last_start.elapsed + durations[Len(durations)]
        /\ t_elapsed - timeout < durations[Len(durations)]

\* The scenario of the claim, run to its end with an overrun of one time unit.
C10_Witness ==
    /\ tpc = "returned"
    /\ timeout = 5
    /\ n_trials = DefaultNTrials
    /\ durations = <<2, 2, 2>>
    /\ t_elapsed = 6

\* The last model.fit call, if any, returned, and `model` is the object it fitted.
Fitted == pc # "raised" /\ model.coef \in CoefKinds

\* The cell `model` was last fitted on went on to scoring (lines 214-215): its
\* coefficients are not all close to 0, or it is the last inner value.
LastCellScored ==
    /\ Fitted
    /\ model.coef = "zero" => model.cell[2] = Len(cs) - 1

\* C12 as stated: the outer values are taken in the order the caller supplied
\* them, the inner values in the order supplied, each at most once.
C12_CallerOrder ==
    /\ h_outer = SubSeq(l1_ratios, 1, Len(h_outer))
    /\ h_inner = SubSeq(cs, 1, Len(h_inner))

\* C12 as amended: the outer values are taken in descending order of value,
\* whatever order the caller supplied them in (every larger value of l1_ratios
\* was taken before a smaller one, none is taken twice); the inner values are
\* taken in the order supplied, each at most once.
C12_DescendingOuterOrder ==
    /\ Len(h_outer) = k
    /\ k <= Len(l1_ratios)
    /\ \A i \in 1..Len(h_outer) :
         /\ \E j \in 1..Len(l1_ratios) : l1_ratios[j] = h_outer[i]
         /\ \A j \in 1..Len(l1_ratios) :
              l1_ratios[j] > h_outer[i] => \E i2 \in 1..(i - 1) : h_outer[i2] = l1_ratios[j]
         /\ \A i2 \in 1..(i - 1) : h_outer[i2] > h_outer[i]
    /\ h_inner = SubSeq(cs, 1, Len(h_inner))
    /\ Len(h_inner) <= Len(cs)

\* l1_ratios given in ascending order: the larger value was taken first, and two
\* inner values were fit for the second one.
C12_Witness ==
    /\ l1_ratios = <<1, 2>>
    /\ h_outer = <<2, 1>>
    /\ Len(h_inner) >= 2

\* C16 as stated: when model.fit was called for a cell of a grid with more than
\* one outer value, the solver's mixing ratio was the outer value of the cell and
\* its penalty strength the inner value of the cell.
C16_SolverConfigured ==
    (Fitted /\ Len(l1_ratios) > 1) =>
        /\ model.l1_ratio = h_outer[model.cell[1]]
        /\ model.C = cs[model.cell[2] + 1]

\* C17: the first fit of every outer value is made on a copy of _model that was
\* never fitted, every later fit on the object fitted on the inner value just
\* before it under the same outer value; when the inner loop of an outer value
\* starts, the per-outer best and the no-improvement counter are reset.
C17_WarmStartWithinOuter ==
    /\ Fitted =>
         /\ model.cell[1] = k
         /\ model.cell[2] = 0 => h_warm = <<0, 0>>
         /\ model.cell[2] > 0 => h_warm = <<k, model.cell[2] - 1>>
    /\ (pc = "inner" /\ n = 0) =>
         /\ model = BaseModel
         /\ c_best_score = NegInf
         /\ c_best_pred = NoPred
         /\ c_best_model = NoModel
         /\ es = 0

\* The first fit of the second outer value, after a first outer value that
\* fitted and scored cells.
C17_Witness ==
    /\ k = 2
    /\ Fitted
    /\ model.cell = <<2, 0>>
    /\ h_warm = <<0, 0>>
    /\ best_score > NegInf
    /\ best_model.cell[1] = 1

\* C18: a fit that gives all-zero coefficients on an inner value that is not the
\* last one changes neither the per-outer best nor the global best nor the
\* no-improvement counter, scores nothing, warns nothing and goes on with the
\* next inner value; a warning is given only by a fit with all-zero coefficients
\* on the last inner value.
C18_DegenerateSkipped ==
    [][/\ (/\ pc = "inner"
           /\ fits' = fits + 1
           /\ pc' # "raised"
           /\ model'.coef = "zero"
           /\ n # Len(cs) - 1)
          => /\ UNCHANGED <<c_best, best, es, warnings, scored, h_best, h_tie>>
             /\ pc' = "inner"
             /\ n' = n + 1
       /\ warnings' # warnings
          => /\ warnings' = warnings + 1
             /\ fits' = fits + 1
             /\ model'.coef = "zero"
             /\ n = Len(cs) - 1]_vars

\* A degenerate second cell was skipped after a scored first cell: the first
\* cell is still the per-outer best and nothing was counted or warned.
C18_Witness ==
    /\ pc = "inner"
    /\ n = 2
    /\ Len(cs) = 3
    /\ model.coef = "zero"
    /\ model.cell = <<k, 1>>
    /\ Len(scored) = 1
    /\ c_best_score = scored[1]
    /\ c_best_model.cell = <<k, 0>>
    /\ es = 0
    /\ warnings = 0

\* C19 as stated: once the time limit is exceeded after a model.fit call, no
\* further model.fit call is made.
C19_NoFitAfterTimeLimit ==
    fits >= 2 => ~TimeLimitExceeded(fits - 1)

\* C20: after a scored cell with all coefficients non-zero no further inner value
\* of that outer value is fit; the inner loop goes on after a scored cell only
\* when none of the three break conditions holds, so it ends on the first of
\* early stopping, time limit, all coefficients non-zero, or the end of cs; the
\* cell that ended it was compared with the per-outer best before.
C20_InnerLoopEnds ==
    /\ pc = "inner" => model.coef # "dense"
    /\ model.coef = "dense" => model.cell = <<k, n>>
    /\ (pc = "inner" /\ LastCellScored) =>
         (~EarlyStop(es) /\ ~TimeLimitExceeded(fits))
    /\ pc = "after_inner" =>
         \/ n >= Len(cs)
         \/ /\ LastCellScored
            /\ model.cell = <<k, n>>
            /\ EarlyStop(es) \/ TimeLimitExceeded(fits) \/ model.coef = "dense"
    /\ (pc = "after_inner" /\ scored # <<>>) =>
         /\ c_best_score >= scored[Len(scored)]
         /\ \E i \in 1..Len(scored) : c_best_score = scored[i]
         /\ \A i \in 1..Len(scored) : c_best_score >= scored[i]

\* The second of three inner values has all coefficients non-zero and ends the
\* inner loop, with patience and time left; it is the per-outer best.
C20_Witness ==
    /\ pc = "after_inner"
    /\ Len(cs) = 3
    /\ n = 1
    /\ model.coef = "dense"
    /\ ~EarlyStop(es)
    /\ ~TimeLimitExceeded(fits)
    /\ Len(scored) = 2
    /\ scored[2] > scored[1]
    /\ c_best_model.cell = <<k, 1>>

\* C24: for a non-empty grid every inner loop has scored a cell when it ends (a
\* break comes only after a scored cell, and the last inner value is always
\* scored), so a search that ends with the time limit exceeded returns a best
\* model that is not None and is at least as good as the best cell of the outer
\* value the time ran out in.
C24_TimeoutKeepsResult ==
    /\ (pc = "after_inner" /\ cs # <<>>) =>
         /\ scored # <<>>
         /\ c_best_model # NoModel
         /\ c_best_score \in Scores
    /\ (pc = "after_inner" /\ n < Len(cs)) =>
         (LastCellScored /\ model.cell = <<k, n>>)
    /\ (pc = "inner" /\ cs # <<>> /\ n = Len(cs)) =>
         (LastCellScored /\ model.cell = <<k, Len(cs) - 1>>)
    /\ (pc = "done" /\ NonEmptyGrid /\ TimeLimitExceeded(fits)) =>
         /\ best_model # NoModel
         /\ best_model.coef \in CoefKinds
         /\ c_best_model # NoModel
         /\ best_score >= c_best_score

\* The time ran out after a scored cell in the middle of the inner loop of the
\* first of two outer values: the search returned that outer value's best cell.
C24_Witness ==
    /\ pc = "done"
    /\ Len(l1_ratios) = 2
    /\ k = 1
    /\ n < Len(cs) - 1
    /\ ~EarlyStop(es)
    /\ model.coef = "sparse"
    /\ TimeLimitExceeded(fits)
    /\ ~TimeLimitExceeded(fits - 1)
    /\ best_model = c_best_model
    /\ best_model.cell[1] = 1

\* C11: fit returns (None, None) exactly when an OptunaError was raised or
\* fit_on_holdout is set and the iterator passed was not a HoldoutIterator;
\* every other run that returns gives the tuned algorithm and its predictions.
\* An OptunaError never leaves fit as an exception.
C11_NoResultCases ==
    /\ tpc = "returned" =>
         /\ result \in {"NoResult", "Algo"}
         /\ result = "NoResult" <=>
                (h_error = "optuna" \/ (fit_on_holdout /\ iter_in # "holdout"))
         /\ result = "Algo" => final_fit.count = 1
    /\ h_error = "optuna" => (tpc = "returned" /\ result = "NoResult")
    /\ tpc = "raised" => h_error = "convert"

\* An OptunaError after some trials, with an iterator that needed no conversion.
C11_Witness ==
    /\ tpc = "returned"
    /\ result = "NoResult"
    /\ h_error = "optuna"
    /\ ~fit_on_holdout
    /\ durations # <<>>

\* C13: with fit_on_holdout set and an iterator that is not a HoldoutIterator,
\* every trial runs on the converted iterator (the conversion comes before the
\* first trial), and a failed conversion leaves fit at once: no trial was run,
\* no final fit was made, nothing is returned.
C13_ConversionBeforeTrials ==
    /\ (durations # <<>> /\ fit_on_holdout /\ iter_in # "holdout") =>
         (last_start.on = "converted" /\ flg_new_iterator)
    /\ (tpc = "optimize" /\ fit_on_holdout /\ iter_in # "holdout") =>
         iter_used = "converted"
    /\ h_error = "convert" =>
         /\ tpc = "raised"
         /\ fit_on_holdout /\ iter_in # "holdout"
         /\ durations = <<>>
         /\ final_fit.count = 0
         /\ result = "none"

\* The conversion fails in the second fit call of a tuner whose first call ran trials.
C13_Witness ==
    /\ tpc = "raised"
    /\ h_error = "convert"
    /\ runs = 2
    /\ best_params # NoParams
    /\ iter_in = "cv"
    /\ durations = <<>>

\* C14: the final fit is made at most once per fit call, only after the trial
\* loop has ended, with the parameters of the study's best trial; after an
\* OptunaError there is no final fit and self._best_params is what it was when
\* fit was entered.
C14_FinalFitOnce ==
    /\ final_fit.count <= 1
    /\ tpc \in {"optimize", "final", "raised"} => final_fit.count = 0
    /\ final_fit.count = 1 =>
         /\ tpc = "returned"
         /\ ShouldStop(Len(durations), t_elapsed)
         /\ study_best \in 1..Len(durations)
         /\ best_params = <<runs, study_best>>
         /\ final_fit.params = best_params
    /\ h_error = "optuna" =>
         /\ final_fit.count = 0
         /\ best_params = h_entry_params

\* The final fit of a second fit call, with the parameters of its first trial,
\* which is not the last one.
C14_Witness ==
    /\ tpc = "returned"
    /\ runs = 2
    /\ final_fit.count = 1
    /\ Len(durations) >= 2
    /\ study_best = 1
    /\ final_fit.params = <<2, 1>>
    /\ h_entry_params[1] = 1

\* C15 as stated: the final fit is made on the iterator the caller passed, also
\* when the trials ran on a holdout iterator converted from it.
C15_FinalFitOnOriginal ==
    final_fit.count = 1 => final_fit.on = iter_in

\* C15 as amended: the final fit is made on the iterator the trials ran on: the
\* iterator the caller passed when no conversion was made, the converted holdout
\* iterator otherwise, and then its result is dropped ((None, None) is returned).
C15_FinalFitOnTrialIterator ==
    final_fit.count = 1 =>
        /\ final_fit.on = last_start.on
        /\ flg_new_iterator => (final_fit.on = "converted" /\ result = "NoResult")
        /\ ~flg_new_iterator => (final_fit.on = iter_in /\ result = "Algo")

\* Trials and final fit on the holdout iterator converted from a cv iterator.
C15_Witness ==
    /\ tpc = "returned"
    /\ final_fit.count = 1
    /\ iter_in = "cv"
    /\ last_start.on = "converted"
    /\ final_fit.on = "converted"

\* C21 as stated: the estimated_n_trials the objective works with in trial k,
\* k >= 2, is the value update_trial_time computed after trial k - 1.
C21_HintIsCurrentEstimate ==
    last_start.run >= 1 => hint = last_start.est

\* C22 as stated: when the trial loop of a fit call starts, estimated_n_trials
\* equals n_trials, also in a later fit call of the same tuner.
C22_EstimateResetPerRun ==
    (tpc = "optimize" /\ durations = <<>>) => estimated_n_trials = n_trials

\* C23: every fit call sets timeout to min(timeout, max(estimated tuning time, 1))
\* and nothing else changes it, so timeout never grows over the fit calls of a
\* tuner (and never exceeds the value given at construction); a trial is started
\* only while the time since the start of the loop is below that clamped value.
C23_TimeoutClampedDown ==
    [][/\ timeout' <= timeout
       /\ timeout' >= 1
       /\ runs' # runs =>
            \E estimated_tuning_time \in 0..MaxTimeout :
                timeout' = Min(timeout, Max(estimated_tuning_time, 1))
       /\ runs' = runs => timeout' = timeout
       /\ Len(durations') > Len(durations) =>
            (timeout' = timeout /\ t_elapsed < timeout)]_vars

\* The first fit call ran three trials, so its timeout was 3 or more; the second
\* fit call clamped the timeout to 1 and its loop stopped after one trial.
C23_Witness ==
    /\ runs = 2
    /\ h_entry_params = <<1, 3>>
    /\ timeout = 1
    /\ tpc = "optimize"
    /\ Len(durations) = 1
    /\ ShouldStop(Len(durations), t_elapsed)
    /\ n_trials > 1

\* C25: estimated_n_trials never exceeds n_trials, however short the trials are.
C25_EstimateAtMostNTrials ==
    /\ estimated_n_trials <= n_trials
    /\ estimated_n_trials >= 0

\* Trials so short that timeout // mean_trial_time is above n_trials: the
\* estimate is n_trials.
C25_Witness ==
    /\ Len(durations) >= 2
    /\ (timeout * Len(durations)) \div SumSeq(durations) > n_trials
    /\ estimated_n_trials = n_trials

\* C26: fit never changes the object the caller passed. The local name ml_algo
\* is bound to a copy of it, every objective call works on a copy of that copy,
\* taken while the copy still has the caller's params and is not fitted (what a
\* trial assigned is seen by no other trial), and the object returned on success
\* is the tuner's copy, fitted with the best params.
C26_CallerAlgoUntouched ==
    /\ objs["caller"] = CallerAlgo
    /\ tpc # "idle" => (ml_algo = "copy" /\ "copy" \in DOMAIN objs)
    /\ tpc \in {"optimize", "final"} =>
         (objs["copy"].params = CallerAlgo.params /\ ~objs["copy"].fitted)
    /\ durations # <<>> =>
         /\ "trial" \in DOMAIN objs
         /\ objs["trial"].params = <<runs, Len(durations)>>
         /\ h_trial_base.params = CallerAlgo.params
         /\ ~h_trial_base.fitted
    /\ result = "Algo" =>
         /\ returned = "copy"
         /\ objs["copy"].fitted
         /\ objs["copy"].params = best_params
    /\ result # "Algo" => returned = "none"

\* A second fit call returned its copy, fitted with the params of the first of
\* its two trials; the last trial worked on its own object.
C26_Witness ==
    /\ tpc = "returned"
    /\ runs = 2
    /\ result = "Algo"
    /\ returned = "copy"
    /\ Len(durations) = 2
    /\ objs["copy"].params = <<2, 1>>
    /\ objs["trial"].params = <<2, 2>>
    /\ objs["caller"] = CallerAlgo

====
